---- MODULE Spec2Model ----
(***************************************************************************)
(* Document-container lifecycle and permission management of PASS          *)
(* (src/src/components/Home.jsx): uploadDocument, fetchDocuments,          *)
(* deleteDocumentFile, deleteDocumentContainer, setDocAclPermission and    *)
(* their helpers, run against a model of the remote Solid store.           *)
(*                                                                         *)
(* Strings the code slices, splits or concatenates (URLs, web ids, file    *)
(* names) are sequences of one-character strings.  Strings the code only   *)
(* compares or stores (document type, date, description, fetch type,       *)
(* access type) are TLA+ strings.                                          *)
(*                                                                         *)
(* Every await of the code is one step of an invocation, so that the       *)
(* store can change between two remote calls of one invocation.  Every     *)
(* remote call may fail (transport failure, refusal by the store).         *)
(***************************************************************************)
EXTENDS Integers, Sequences, FiniteSets, TLC

(***************************************************************************)
(* Bounds of the model.                                                    *)
(***************************************************************************)
\* uploadDocument invocations in one behaviour
MaxUploads == 2
\* concurrent invocations (slots); specification Spec runs one at a time
NumProcs == 2

Procs == 1..NumProcs

(***************************************************************************)
(* Strings as character sequences.                                         *)
(***************************************************************************)
\* JavaScript null and undefined: no character sequence equals them
Null == <<"null">>
Undefined == <<"undefined">>

S_https == <<"h", "t", "t", "p", "s", ":", "/", "/">>
S_profile == <<"p", "r", "o", "f", "i", "l", "e">>
S_card == <<"/", "p", "r", "o", "f", "i", "l", "e", "/", "c", "a", "r", "d", "#", "m", "e">>
S_ttl == <<"t", "t", "l">>
S_slash == <<"/">>

\* String.prototype.slice(-3): the last three characters, or all of a shorter string
Slice3(s) == IF Len(s) <= 3 THEN s ELSE SubSeq(s, Len(s) - 2, Len(s))

\* String.prototype.includes(c) for a one-character c
Includes(s, c) == \E i \in 1..Len(s) : s[i] = c

\* does sub occur in s at position i
OccursAt(s, sub, i) ==
    /\ i + Len(sub) - 1 <= Len(s)
    /\ \A j \in 1..Len(sub) : s[i + j - 1] = sub[j]

\* the part of s before the last occurrence of sub, all of s when sub does
\* not occur
SplitLast(s, sub) ==
    LET hits == {i \in 1..Len(s) : OccursAt(s, sub, i)}
    IN  IF hits = {} THEN s
        ELSE SubSeq(s, 1, (CHOOSE i \in hits : \A k \in hits : k <= i) - 1)

\* String.prototype.split(sub)[0]: the part of s before the first occurrence
\* of sub, all of s when sub does not occur
SplitFirst(s, sub) ==
    LET hits == {i \in 1..Len(s) : OccursAt(s, sub, i)}
    IN  IF hits = {} THEN s
        ELSE SubSeq(s, 1, (CHOOSE i \in hits : \A k \in hits : i <= k) - 1)

Digit(k) == <<"0", "1", "2", "3", "4", "5", "6", "7", "8", "9">>[k + 1]

(***************************************************************************)
(* Inputs.                                                                 *)
(***************************************************************************)
\* pod hosts: the owner's and two others
OwnerHost == <<"a", ".", "x">>
PodHosts == {OwnerHost, <<"b", ".", "x">>, <<"c", ".", "x">>}

\* session.info.webId of the caller
SessionWebIds == {S_https \o OwnerHost \o S_card}

\* web ids the Resource Locator is applied to: the caller's, one whose host
\* holds 'profile' too, one without 'profile'
LocatorWebIds ==
    SessionWebIds
        \cup {S_https \o S_profile \o <<".", "x">> \o S_card,
              S_https \o OwnerHost \o <<"/", "m", "e">>}

\* fetchType: the two the callers pass and one that is neither
FetchTypes == {"self-fetch", "cross-fetch", ""}

SupportedTypes == {"Bank Statement", "Passport", "Drivers License"}
FileTypes == SupportedTypes \cup {"Birth Certificate"}

\* file names: an ordinary one, a two-character one, one ending in 'ttl'

\* fileObject of the upload form: {type, date, description, file: {name}}, one
\* per file name
FileObjects(types) ==
    {[type |-> t, date |-> "2024-01-01", description |-> "scan",
      name |-> <<"a", ".", "p", "d", "f">>] : t \in types}
    \cup {[type |-> t, date |-> "2025-06-30", description |-> "id card",
           name |-> <<"c", "v">>] : t \in types}
    \cup {[type |-> t, date |-> "2024-01-01", description |-> "notes",
           name |-> <<"n", ".", "t", "t", "l">>] : t \in types}

(***************************************************************************)
(* Resource Locator.                                                       *)
(***************************************************************************)
Seg_Bank == <<"B", "a", "n", "k", "%", "2", "0", "S", "t", "a", "t", "e", "m", "e", "n", "t", "/">>
Seg_Passport == <<"P", "a", "s", "s", "p", "o", "r", "t", "/">>
Seg_Drivers == <<"D", "r", "i", "v", "e", "r", "s", "%", "2", "0", "L", "i", "c", "e", "n", "s", "e", "/">>

fetchUrl(sessionWebId, fileType, fetchType, otherPodUrl) ==
    LET POD_URL == IF fetchType = "self-fetch"
                   THEN SplitFirst(sessionWebId, S_profile)
                   ELSE S_https \o otherPodUrl \o S_slash
    IN  CASE fileType = "Bank Statement" -> POD_URL \o Seg_Bank
          [] fileType = "Passport" -> POD_URL \o Seg_Passport
          [] fileType = "Drivers License" -> POD_URL \o Seg_Drivers
          [] OTHER -> Null

(***************************************************************************)
(* ACL Builder.  An ACL is a set of entries, one per agent that has a      *)
(* rule: [agent, resource, default], each scope an access object with the  *)
(* four booleans.  An agent without entry has no access.                   *)
(***************************************************************************)
Modes == {"read", "append", "write", "control"}
NoAccess == [m \in Modes |-> FALSE]
FullAccess == [m \in Modes |-> TRUE]

\* the access the library records for an access object of the code: a mode
\* the object does not mention is not granted
Granted(accessObject) ==
    [m \in Modes |-> m \in DOMAIN accessObject /\ accessObject[m]]

EntryOf(aclSet, agent) ==
    IF \E e \in aclSet : e.agent = agent
    THEN CHOOSE e \in aclSet : e.agent = agent
    ELSE [agent |-> agent, resource |-> NoAccess, default |-> NoAccess]

\* an entry that grants nothing is no rule at all
WithEntry(aclSet, e) ==
    {x \in aclSet : x.agent # e.agent}
        \cup (IF e.resource = NoAccess /\ e.default = NoAccess THEN {} ELSE {e})

\* replaces the agent's access to the resource itself, keeps everything else
setAgentResourceAccess(aclSet, agent, accessObject) ==
    WithEntry(aclSet, [EntryOf(aclSet, agent) EXCEPT !.resource = Granted(accessObject)])

\* replaces the agent's default (inherited) access, keeps everything else
setAgentDefaultAccess(aclSet, agent, accessObject) ==
    WithEntry(aclSet, [EntryOf(aclSet, agent) EXCEPT !.default = Granted(accessObject)])

\* setupAcl without line 184: the default access is left as it was
setupAclResourceOnly(resourceWithAcl, agent, accessObject) ==
    setAgentResourceAccess(resourceWithAcl, agent, accessObject)

\* lines 181-187
setupAcl(resourceWithAcl, agent, accessObject) ==
    setAgentDefaultAccess(setAgentResourceAccess(resourceWithAcl, agent, accessObject),
                          agent, accessObject)

\* createAcl: a new ACL without rules
createAcl == {}

(***************************************************************************)
(* State.                                                                  *)
(***************************************************************************)
VARIABLES
    webId,        \* session.info.webId of the caller
    docType,      \* the document type whose container the store holds
    container,    \* store: the container of docType exists
    resources,    \* store: the resources the container contains
    aclExists,    \* store: the container has an ACL resource of its own
    acl,          \* store: the rules of that ACL resource
    pending,      \* store: deleteFile requests issued and not yet processed
    proc,         \* the invocations: position, arguments, locals, result
    uploads,      \* number of uploadDocument invocations started
    completed,    \* number of uploadDocument invocations returned without error
    onlyUploads,  \* every invocation so far: uploadDocument returned without
                  \* error, or fetchDocuments
    aclBoots      \* number of createDocAclForUser executions that completed

storeVars == <<container, resources, aclExists, acl, pending>>
vars == <<webId, docType, container, resources, aclExists, acl, pending, proc,
          uploads, completed, onlyUploads, aclBoots>>

\* the URL of the container the store holds
ContainerUrl == fetchUrl(webId, docType, "self-fetch", Undefined)

UrlOf(r) == ContainerUrl \o r.name

Datasets == {r \in resources : r.kind = "dataset"}
Files == {r \in resources : r.kind = "file"}

(***************************************************************************)
(* Metadata.                                                               *)
(***************************************************************************)
\* generateName of createThing: a name no other Thing has
generateName(id) == <<"#", Digit(id)>>

\* createThing({ name }): the given name, a generated one when it is undefined
createThing(name, id) == IF name = Undefined THEN generateName(id) ELSE <<"#">> \o name

\* buildThing(...).addStringNoLocale(...)...build() of uploadDocument
buildThing(subject, fileObject) ==
    [subject |-> subject,
     name |-> fileObject.name,
     identifier |-> fileObject.type,
     endDate |-> fileObject.date,
     description |-> fileObject.description]

\* setThing: a Thing of the same subject is replaced, any other is added
setThing(dataset, thing) ==
    {t \in dataset : t.subject # thing.subject} \cup {thing}

createSolidDataset == {}

(***************************************************************************)
(* Listing of the container and the helpers that inspect it.               *)
(***************************************************************************)
\* all orders of the elements of S
RECURSIVE Orders(_)
Orders(S) ==
    IF S = {} THEN {<<>>}
    ELSE UNION {{<<x>> \o rest : rest \in Orders(S \ {x})} : x \in S}

\* getThingAll of the container's dataset: the container itself and one item
\* per contained resource, in an order the store chooses
Listings == Orders({ContainerUrl} \cup {UrlOf(r) : r \in resources})

\* items.find(...): the first item the test accepts, null when none
hasTTLFiles(items) ==
    LET hits == {i \in 1..Len(items) : Slice3(items[i]) = S_ttl}
    IN  IF hits = {} THEN Null
        ELSE items[CHOOSE i \in hits : \A k \in hits : i <= k]

IsFileItem(url) == ~Includes(Slice3(url), "/")

\* [directory, files]: files are the items the test accepts, in order;
\* directory is the last item it rejects, '' when none
hasFiles(items) ==
    LET rejected == {i \in 1..Len(items) : ~IsFileItem(items[i])}
    IN  [directory |-> IF rejected = {} THEN <<>>
                       ELSE items[CHOOSE i \in rejected : \A k \in rejected : k <= i],
         files |-> SelectSeq(items, IsFileItem)]

\* container.url of deleteDocumentFile: the url of an item, undefined for ''
UrlProperty(directory) == IF directory = <<>> THEN Undefined ELSE directory

(***************************************************************************)
(* The store's answers.  A request is answered "ok" or with the cause of   *)
(* its failure.  The store enforces the container's ACL on the caller;     *)
(* without ACL of its own the container inherits the pod's, which gives    *)
(* the owner every access.                                                 *)
(***************************************************************************)
\* transport failures, possible for every request
Failures == {"network"}

\* the caller's access to the container itself, and to what it contains
Allowed(mode) == ~aclExists \/ EntryOf(acl, webId).resource[mode]
AllowedIn(mode) == ~aclExists \/ EntryOf(acl, webId).default[mode]

Answers(present, allowed) ==
    (IF ~present THEN {"notfound"} ELSE IF ~allowed THEN {"unauthorized"} ELSE {"ok"})
        \cup Failures

IsChildUrl(url) ==
    Len(url) > Len(ContainerUrl) /\ SubSeq(url, 1, Len(ContainerUrl)) = ContainerUrl

\* getSolidDataset(url); an item of a listing stands for its url
ReadOutcomes(url) ==
    IF url = Null \/ url = Undefined THEN {"invalid"}
    ELSE IF url = ContainerUrl THEN Answers(container, Allowed("read"))
    ELSE IF IsChildUrl(url)
         THEN Answers(\E r \in resources : UrlOf(r) = url, AllowedIn("read"))
    \* a location of another pod: the model does not hold its state
    ELSE {"ok", "notfound", "unauthorized"} \cup Failures

\* createContainerAt(url): the container exists afterwards, whether or not it
\* did before
CreateContainerOutcomes(url) ==
    IF url # ContainerUrl THEN {"invalid"}
    ELSE IF container THEN Answers(TRUE, Allowed("write"))
    ELSE {"ok"} \cup Failures

\* saveFileInContainer, saveSolidDatasetInContainer: a new resource in the container
AddOutcomes == Answers(container, Allowed("append"))

\* saveSolidDatasetAt(item, ...): the resource of the item is rewritten
WriteOutcomes(url) ==
    Answers(\E r \in resources : UrlOf(r) = url, AllowedIn("write"))

\* saveAclFor
SaveAclOutcomes == Answers(container, Allowed("control"))

\* deleteContainer(url): the store removes only an empty container, and only
\* a url that ends in '/' names a container
DeleteContainerOutcomes(url) ==
    IF url # ContainerUrl THEN {"invalid"}
    ELSE IF container /\ Allowed("write") /\ resources # {} THEN {"conflict"} \cup Failures
    ELSE Answers(container, Allowed("write"))

\* the name the store gives a file placed with a slug: the slug when it is
\* free, else the slug behind a prefix that makes it new
AssignName(slug, id) ==
    IF \E r \in resources : r.name = slug THEN <<Digit(id), "-">> \o slug ELSE slug

\* the name the store gives a dataset saved into the container without slug
DatasetName(id) == <<Digit(id), ".">> \o S_ttl

(***************************************************************************)
(* Invocations.                                                            *)
(***************************************************************************)
NoFile == [type |-> "", date |-> "", description |-> "", name |-> <<>>]
NoThing == buildThing(<<>>, NoFile)

Idle ==
    [op |-> "none", pc |-> "idle",
     \* arguments
     fileObject |-> NoFile, fileType |-> "", fetchType |-> "", accessType |-> "",
     otherPodUrl |-> <<>>, url |-> <<>>,
     \* the invocation whose result the caller passes on as argument
     from |-> "",
     \* locals
     id |-> 0, documentUrl |-> <<>>, storedFile |-> <<>>, ttlFile |-> <<>>,
     toBeUpdated |-> NoThing, myDataset |-> {}, newAcl |-> {},
     \* what the invocation did and saw: file placed, branch taken, requests
     \* of deleteFile, items read, cause of its failure, the store's ACL when
     \* it was called
     placed |-> FALSE, branch |-> "", issued |-> <<>>, items |-> {}, cause |-> "",
     before |-> {},
     \* result: returned value or the error raised
     ok |-> FALSE, value |-> <<>>, error |-> ""]

Running(p) == proc[p].pc \notin {"idle", "returned"}
AllIdle == \A p \in Procs : ~Running(p)
At(p, op, pc) == proc[p].op = op /\ proc[p].pc = pc
Returned(p, op) == At(p, op, "returned")

\* a finished invocation keeps its arguments and what it did, not its locals
Finished(p) ==
    [Idle EXCEPT !.op = proc[p].op, !.pc = "returned",
                 !.fileObject = proc[p].fileObject, !.fileType = proc[p].fileType,
                 !.fetchType = proc[p].fetchType, !.accessType = proc[p].accessType,
                 !.otherPodUrl = proc[p].otherPodUrl, !.url = proc[p].url,
                 !.from = proc[p].from,
                 !.placed = proc[p].placed, !.branch = proc[p].branch,
                 !.before = proc[p].before]

\* the invocation returns value
Return(p, value) ==
    [proc EXCEPT ![p] = [Finished(p) EXCEPT !.ok = TRUE, !.value = value]]

\* the invocation fails with error
Throw(p, error) ==
    [proc EXCEPT ![p] = [Finished(p) EXCEPT !.ok = FALSE, !.error = error,
                                            !.cause = error]]

Goto(p, pc) == [proc EXCEPT ![p] = [@ EXCEPT !.pc = pc]]

\* completed and aclBoots count while onlyUploads holds
Counted == UNCHANGED <<webId, docType, uploads, completed, onlyUploads, aclBoots>>
NotOnlyUploads ==
    /\ onlyUploads' = FALSE
    /\ completed' = 0
    /\ aclBoots' = 0
    /\ UNCHANGED <<webId, docType, uploads>>

(***************************************************************************)
(* uploadDocument.                                                         *)
(***************************************************************************)
UploadFails(p, error) ==
    /\ proc' = Throw(p, error)
    /\ NotOnlyUploads

UploadReturns(p, boots) ==
    /\ proc' = Return(p, Undefined)
    /\ completed' = IF onlyUploads THEN completed + 1 ELSE 0
    /\ aclBoots' = IF onlyUploads THEN aclBoots + boots ELSE 0
    /\ UNCHANGED <<webId, docType, uploads, onlyUploads>>

\* line 263 and the call of line 264
uploadDocument(p, fileObject) ==
    /\ ~Running(p)
    /\ uploads < MaxUploads
    /\ uploads' = uploads + 1
    /\ proc' = [proc EXCEPT ![p] =
                  [Idle EXCEPT !.op = "uploadDocument", !.pc = "createContainerAt",
                               !.fileObject = fileObject, !.id = uploads + 1,
                               !.documentUrl =
                                   fetchUrl(webId, fileObject.type, "self-fetch", Undefined)]]
    /\ UNCHANGED <<webId, docType, storeVars, completed, onlyUploads, aclBoots>>

\* line 264
UploadCreateContainer(p) ==
    /\ At(p, "uploadDocument", "createContainerAt")
    /\ \E outcome \in CreateContainerOutcomes(proc[p].documentUrl) :
          IF outcome = "ok"
          THEN /\ container' = TRUE
               /\ proc' = Goto(p, "saveFileInContainer")
               /\ UNCHANGED <<resources, aclExists, acl, pending>>
               /\ Counted
          ELSE /\ UploadFails(p, outcome)
               /\ UNCHANGED storeVars

\* placeFileInContainer without the try and catch of lines 78-86: a failed
\* placement fails the invocation
placeFileInContainerUncaught(p) ==
    /\ At(p, "uploadDocument", "saveFileInContainer")
    /\ \E outcome \in AddOutcomes :
          IF outcome = "ok"
          THEN /\ resources' = resources \cup
                    {[name |-> AssignName(proc[p].fileObject.name, proc[p].id),
                      kind |-> "file", things |-> {}, id |-> proc[p].id]}
               /\ proc' = [proc EXCEPT ![p] = [@ EXCEPT !.pc = "getSolidDataset_267",
                                                        !.placed = TRUE,
                                                        !.storedFile = Undefined]]
               /\ UNCHANGED <<container, aclExists, acl, pending>>
               /\ Counted
          ELSE /\ UploadFails(p, outcome)
               /\ UNCHANGED storeVars

\* lines 266, 77-87: the file is placed under the name the store assigns; a
\* failure is logged and the invocation goes on; nothing is returned
placeFileInContainer(p) ==
    /\ At(p, "uploadDocument", "saveFileInContainer")
    /\ \E outcome \in AddOutcomes :
          /\ resources' =
                IF outcome = "ok"
                THEN resources \cup
                        {[name |-> AssignName(proc[p].fileObject.name, proc[p].id),
                          kind |-> "file", things |-> {}, id |-> proc[p].id]}
                ELSE resources
          /\ proc' = [proc EXCEPT ![p] = [@ EXCEPT !.pc = "getSolidDataset_267",
                                                   !.placed = (outcome = "ok"),
                                                   !.storedFile = Undefined]]
    /\ UNCHANGED <<container, aclExists, acl, pending>>
    /\ Counted

\* the item hasTTLFiles can return for the listings the store can give
TtlItems == {hasTTLFiles(items) : items \in Listings}

\* lines 267-278: the container is read, the metadata dataset looked for and
\* the Thing built
UploadReadContainer(p) ==
    /\ At(p, "uploadDocument", "getSolidDataset_267")
    /\ UNCHANGED storeVars
    /\ \E outcome \in ReadOutcomes(proc[p].documentUrl) :
          IF outcome = "ok"
          THEN /\ \E ttlFile \in TtlItems :
                    proc' = [proc EXCEPT ![p] = [@ EXCEPT
                        !.ttlFile = ttlFile,
                        !.toBeUpdated =
                            buildThing(createThing(proc[p].storedFile, proc[p].id),
                                       proc[p].fileObject),
                        !.branch = IF ttlFile # Null THEN "merge" ELSE "create",
                        !.pc = IF ttlFile # Null THEN "getSolidDataset_279"
                               ELSE "saveSolidDatasetInContainer"]]
               /\ Counted
          ELSE UploadFails(p, outcome)

\* lines 279-281: the detected item is read as a dataset and the Thing merged
UploadReadDataset(p) ==
    /\ At(p, "uploadDocument", "getSolidDataset_279")
    /\ UNCHANGED storeVars
    /\ \E outcome \in ReadOutcomes(proc[p].ttlFile) :
          IF outcome = "ok"
          THEN /\ \E r \in resources :
                    /\ UrlOf(r) = proc[p].ttlFile
                    /\ proc' = [proc EXCEPT ![p] = [@ EXCEPT
                            !.myDataset = setThing(r.things, proc[p].toBeUpdated),
                            !.pc = "saveSolidDatasetAt"]]
               /\ Counted
          ELSE UploadFails(p, outcome)

\* lines 283-285, 303: the merged dataset is written to the detected item
UploadSaveDatasetAt(p) ==
    /\ At(p, "uploadDocument", "saveSolidDatasetAt")
    /\ \E outcome \in WriteOutcomes(proc[p].ttlFile) :
          IF outcome = "ok"
          THEN /\ \E r \in resources :
                    /\ UrlOf(r) = proc[p].ttlFile
                    /\ resources' = (resources \ {r})
                                       \cup {[r EXCEPT !.things = proc[p].myDataset]}
               /\ UploadReturns(p, 0)
               /\ UNCHANGED <<container, aclExists, acl, pending>>
          ELSE /\ UploadFails(p, outcome)
               /\ UNCHANGED storeVars

\* lines 288-293: a new dataset with the Thing is saved into the container
UploadSaveDatasetInContainer(p) ==
    /\ At(p, "uploadDocument", "saveSolidDatasetInContainer")
    /\ \E outcome \in AddOutcomes :
          IF outcome = "ok"
          THEN /\ resources' = resources \cup
                    {[name |-> DatasetName(proc[p].id), kind |-> "dataset",
                      things |-> setThing(createSolidDataset, proc[p].toBeUpdated),
                      id |-> proc[p].id]}
               /\ proc' = Goto(p, "getSolidDataset_199")
               /\ UNCHANGED <<container, aclExists, acl, pending>>
               /\ Counted
          ELSE /\ UploadFails(p, outcome)
               /\ UNCHANGED storeVars

\* lines 203-207
OwnerAccessObject ==
    [read |-> TRUE, append |-> TRUE, write |-> TRUE, control |-> TRUE]

\* lines 296, 199-209: createDocAclForUser reads the container and builds a
\* new ACL that holds the owner's rule only
createDocAclForUser(p) ==
    /\ At(p, "uploadDocument", "getSolidDataset_199")
    /\ UNCHANGED storeVars
    /\ \E outcome \in ReadOutcomes(proc[p].documentUrl) :
          IF outcome = "ok"
          THEN /\ proc' = [proc EXCEPT ![p] = [@ EXCEPT
                      !.newAcl = setupAcl(createAcl, webId, OwnerAccessObject),
                      !.pc = "saveAclFor_210"]]
               /\ Counted
          ELSE UploadFails(p, outcome)

\* lines 210, 303: the new ACL becomes the container's ACL
UploadAclSave(p) ==
    /\ At(p, "uploadDocument", "saveAclFor_210")
    /\ \E outcome \in SaveAclOutcomes :
          IF outcome = "ok"
          THEN /\ acl' = proc[p].newAcl
               /\ aclExists' = TRUE
               /\ UploadReturns(p, 1)
               /\ UNCHANGED <<container, resources, pending>>
          ELSE /\ UploadFails(p, outcome)
               /\ UNCHANGED storeVars

(***************************************************************************)
(* fetchDocuments.                                                         *)
(***************************************************************************)
\* a catch that raises what it caught
CaughtErrorRethrown(cause) == cause

\* lines 322-325: whatever was caught, the error raised is this one
CaughtError(cause) == "No data found or unauthorized"

\* the file of the upload that the fetch follows, with nothing but fetches
\* between them
FollowedUpload(p) ==
    IF proc[p].pc = "returned"
       /\ \/ proc[p].op = "uploadDocument" /\ proc[p].ok
          \/ proc[p].op = "fetchDocuments"
    THEN proc[p].fileObject ELSE NoFile

\* line 317 and the call of line 320
fetchDocuments(p, fileType, fetchType, otherPodUrl) ==
    /\ ~Running(p)
    /\ proc' = [proc EXCEPT ![p] =
                  [Idle EXCEPT !.op = "fetchDocuments", !.pc = "getSolidDataset_320",
                               !.fileType = fileType, !.fetchType = fetchType,
                               !.otherPodUrl = otherPodUrl,
                               !.fileObject = FollowedUpload(p),
                               !.documentUrl =
                                   fetchUrl(webId, fileType, fetchType, otherPodUrl)]]
    /\ UNCHANGED storeVars
    /\ Counted

\* lines 319-325
FetchRead(p) ==
    /\ At(p, "fetchDocuments", "getSolidDataset_320")
    /\ \E outcome \in ReadOutcomes(proc[p].documentUrl) :
          proc' = IF outcome = "ok"
                  THEN Return(p, proc[p].documentUrl)
                  ELSE [Throw(p, CaughtError(outcome)) EXCEPT ![p].cause = outcome]
    /\ UNCHANGED storeVars
    /\ Counted

(***************************************************************************)
(* deleteDocumentFile, deleteDocumentContainer.                            *)
(***************************************************************************)
Range(seq) == {seq[i] : i \in 1..Len(seq)}

\* the requests of a sequence of calls: how many calls each url got
Requests(seq) == [u \in Range(seq) |-> Cardinality({i \in 1..Len(seq) : seq[i] = u})]

\* line 338 and the call of line 339
deleteDocumentFile(p, fileType) ==
    /\ ~Running(p)
    /\ proc' = [proc EXCEPT ![p] =
                  [Idle EXCEPT !.op = "deleteDocumentFile", !.pc = "getSolidDataset_339",
                               !.fileType = fileType,
                               !.documentUrl =
                                   fetchUrl(webId, fileType, "self-fetch", Undefined)]]
    /\ UNCHANGED storeVars
    /\ NotOnlyUploads

\* lines 344-348: deleteFile is called for every item of files that passes
\* the test of line 345
IssuedDeletes(files) == SelectSeq(files, IsFileItem)

\* lines 343-350 for the items read: the requests issued and the value returned
DeletePlan(items) ==
    LET parts == hasFiles(items)
    IN  [items |-> Range(items),
         issued |-> Requests(IssuedDeletes(parts.files)),
         value |-> UrlProperty(parts.directory)]

\* deleteDocumentFile that awaits every deleteFile before it returns: the
\* files are gone when it returns
DeleteReadAndAwait(p) ==
    /\ At(p, "deleteDocumentFile", "getSolidDataset_339")
    /\ \E outcome \in ReadOutcomes(proc[p].documentUrl) :
          IF outcome = "ok"
          THEN \E plan \in {DeletePlan(items) : items \in Listings} :
                  /\ resources' = {r \in resources : UrlOf(r) \notin DOMAIN plan.issued}
                  /\ proc' = [Return(p, plan.value)
                                EXCEPT ![p].items = plan.items,
                                       ![p].issued = plan.issued]
          ELSE /\ proc' = Throw(p, outcome)
               /\ UNCHANGED resources
    /\ UNCHANGED <<container, pending, aclExists, acl>>
    /\ Counted

\* lines 339-350: the container is read, the deleteFile requests are issued,
\* none is awaited, and the url of the item taken for the directory is returned
DeleteReadAndIssue(p) ==
    /\ At(p, "deleteDocumentFile", "getSolidDataset_339")
    /\ \E outcome \in ReadOutcomes(proc[p].documentUrl) :
          IF outcome = "ok"
          THEN \E plan \in {DeletePlan(items) : items \in Listings} :
                  /\ pending' = pending \cup DOMAIN plan.issued
                  /\ proc' = [Return(p, plan.value)
                                EXCEPT ![p].items = plan.items,
                                       ![p].issued = plan.issued]
          ELSE /\ proc' = Throw(p, outcome)
               /\ UNCHANGED pending
    /\ UNCHANGED <<container, resources, aclExists, acl>>
    /\ Counted

\* line 346, at the store: a deleteFile request is processed; the resource is
\* removed, or the request fails and nobody is told
StoreDeleteFile(url) ==
    /\ url \in pending
    /\ pending' = pending \ {url}
    /\ \/ /\ AllowedIn("write")
          /\ resources' = {r \in resources : UrlOf(r) # url}
       \/ UNCHANGED resources
    /\ UNCHANGED <<container, aclExists, acl, proc>>
    /\ Counted

\* the call of line 363
deleteDocumentContainer(p, documentUrl) ==
    /\ ~Running(p)
    /\ proc' = [proc EXCEPT ![p] =
                  [Idle EXCEPT !.op = "deleteDocumentContainer", !.pc = "deleteContainer",
                               !.url = documentUrl, !.documentUrl = documentUrl,
                               !.from = proc[p].op]]
    /\ UNCHANGED storeVars
    /\ NotOnlyUploads

\* lines 363-364: the container goes, and its ACL with it
DeleteContainer(p) ==
    /\ At(p, "deleteDocumentContainer", "deleteContainer")
    /\ \E outcome \in DeleteContainerOutcomes(proc[p].documentUrl) :
          IF outcome = "ok"
          THEN /\ container' = FALSE
               /\ aclExists' = FALSE
               /\ acl' = {}
               /\ proc' = Return(p, Undefined)
               /\ UNCHANGED <<resources, pending>>
          ELSE /\ proc' = Throw(p, outcome)
               /\ UNCHANGED storeVars
    /\ Counted

(***************************************************************************)
(* setDocAclPermission.                                                    *)
(***************************************************************************)
\* line 231
GranteeWebId(otherPodUrl) == S_https \o otherPodUrl \o S_card

\* lines 233-237
AccessObject(accessType) ==
    IF accessType = "Give" THEN [read |-> TRUE] ELSE [read |-> FALSE]

\* line 226 and the call of line 228
setDocAclPermission(p, fileType, accessType, otherPodUrl) ==
    /\ ~Running(p)
    /\ proc' = [proc EXCEPT ![p] =
                  [Idle EXCEPT !.op = "setDocAclPermission",
                               !.pc = "getSolidDatasetWithAcl",
                               !.fileType = fileType, !.accessType = accessType,
                               !.otherPodUrl = otherPodUrl, !.before = acl,
                               !.documentUrl =
                                   fetchUrl(webId, fileType, "self-fetch", Undefined)]]
    /\ UNCHANGED storeVars
    /\ NotOnlyUploads

\* getResourceAcl: the container's own ACL when it has one and the caller
\* controls the container, else null
AclReadable == aclExists /\ Allowed("control")

\* lines 228-239: the container is read with its ACL and the grantee's access
\* set in it; without ACL (null) setupAcl raises a TypeError
AclRead(p) ==
    /\ At(p, "setDocAclPermission", "getSolidDatasetWithAcl")
    /\ \E outcome \in ReadOutcomes(proc[p].documentUrl) :
          proc' = IF outcome # "ok" THEN Throw(p, outcome)
                  ELSE IF ~AclReadable THEN Throw(p, "TypeError")
                  ELSE [proc EXCEPT ![p] = [@ EXCEPT
                          !.newAcl = setupAcl(acl, GranteeWebId(proc[p].otherPodUrl),
                                              AccessObject(proc[p].accessType)),
                          !.pc = "saveAclFor_240"]]
    /\ UNCHANGED storeVars
    /\ Counted

\* line 240: the updated ACL becomes the container's ACL
AclSave(p) ==
    /\ At(p, "setDocAclPermission", "saveAclFor_240")
    /\ \E outcome \in Answers(container /\ aclExists, Allowed("control")) :
          IF outcome = "ok"
          THEN /\ acl' = proc[p].newAcl
               /\ proc' = Return(p, Undefined)
               /\ UNCHANGED <<container, resources, aclExists, pending>>
          ELSE /\ proc' = Throw(p, outcome)
               /\ UNCHANGED storeVars
    /\ Counted

(***************************************************************************)
(* Specification: the invocations run one after another; the deleteFile    *)
(* requests of a returned deleteDocumentFile are processed at any time.    *)
(***************************************************************************)
Init ==
    /\ webId \in SessionWebIds
    /\ docType \in SupportedTypes
    /\ container = FALSE
    /\ resources = {}
    /\ aclExists = FALSE
    /\ acl = {}
    /\ pending = {}
    /\ proc = [p \in Procs |-> Idle]
    /\ uploads = 0
    /\ completed = 0
    /\ onlyUploads = TRUE
    /\ aclBoots = 0

\* the types the forms can send: the type of the container and one the
\* Resource Locator does not know
InputTypes == {docType, "Birth Certificate"}

\* the urls a caller passes to deleteDocumentContainer: what fetchDocuments
\* or deleteDocumentFile returned to it
ReturnedUrls(p) ==
    IF proc[p].pc = "returned" /\ proc[p].ok
       /\ proc[p].op \in {"fetchDocuments", "deleteDocumentFile"}
    THEN {proc[p].value} ELSE {}

CallUpload(p) ==
    \E fileObject \in FileObjects(InputTypes) : uploadDocument(p, fileObject)

CallFetch(p) ==
    \E fileType \in InputTypes :
        \/ fetchDocuments(p, fileType, "self-fetch", <<>>)
        \/ \E otherPodUrl \in PodHosts :
              fetchDocuments(p, fileType, "cross-fetch", otherPodUrl)

CallDelete(p) ==
    \/ \E fileType \in InputTypes : deleteDocumentFile(p, fileType)
    \/ \E url \in ReturnedUrls(p) : deleteDocumentContainer(p, url)

CallPermission(p) ==
    \E fileType \in InputTypes, accessType \in {"Give", "Revoke"},
       otherPodUrl \in PodHosts :
        setDocAclPermission(p, fileType, accessType, otherPodUrl)

StepUpload(p) ==
    \/ UploadCreateContainer(p)
    \/ placeFileInContainer(p)
    \/ UploadReadContainer(p)
    \/ UploadReadDataset(p)
    \/ UploadSaveDatasetAt(p)
    \/ UploadSaveDatasetInContainer(p)
    \/ createDocAclForUser(p)
    \/ UploadAclSave(p)

StepDelete(p) ==
    \/ DeleteReadAndIssue(p)
    \/ DeleteContainer(p)

StepPermission(p) ==
    \/ AclRead(p)
    \/ AclSave(p)

\* the document lifecycle: upload, retrieval and the two phases of deletion
Next ==
    \/ AllIdle /\ (CallUpload(1) \/ CallFetch(1) \/ CallDelete(1))
    \/ \E p \in Procs : StepUpload(p) \/ FetchRead(p) \/ StepDelete(p)
    \/ \E url \in pending : StoreDeleteFile(url)

Spec == Init /\ [][Next]_vars

\* retrieval alone: uploads that fill the container, and fetches of the
\* caller's own and of other pods' containers
NextFetch ==
    \/ AllIdle /\ (CallUpload(1) \/ CallFetch(1))
    \/ \E p \in Procs : StepUpload(p) \/ FetchRead(p)

SpecFetch == Init /\ [][NextFetch]_vars

\* the uploads that set up a container for permission management: the scan,
\* a file of the pod's own document type
CallUploadScan(p) ==
    \E fileObject \in {f \in FileObjects({docType}) : f.description = "scan"} :
        uploadDocument(p, fileObject)

\* permission management: uploads that create the container and its ACL, and
\* grants and revocations on it
NextPermission ==
    \/ AllIdle /\ (CallUploadScan(1) \/ CallPermission(1))
    \/ \E p \in Procs : StepUpload(p) \/ StepPermission(p)

SpecPermission == Init /\ [][NextPermission]_vars

\* the Resource Locator applied on its own: lines 151-169 with the inputs
\* and the value it returns
Locate(p, fileType, fetchType, otherPodUrl) ==
    /\ proc' = [proc EXCEPT ![p] =
                  [Idle EXCEPT !.op = "fetchUrl", !.pc = "returned",
                               !.fileType = fileType, !.fetchType = fetchType,
                               !.otherPodUrl = otherPodUrl, !.ok = TRUE,
                               !.value = fetchUrl(webId, fileType, fetchType, otherPodUrl)]]
    /\ UNCHANGED storeVars
    /\ Counted

InitLocator ==
    /\ webId \in LocatorWebIds
    /\ docType \in SupportedTypes
    /\ container = FALSE
    /\ resources = {}
    /\ aclExists = FALSE
    /\ acl = {}
    /\ pending = {}
    /\ proc = [p \in Procs |-> Idle]
    /\ uploads = 0
    /\ completed = 0
    /\ onlyUploads = TRUE
    /\ aclBoots = 0

NextLocator ==
    \E fileType \in FileTypes, fetchType \in FetchTypes, otherPodUrl \in PodHosts :
        Locate(1, fileType, fetchType, otherPodUrl)

SpecLocator == InitLocator /\ [][NextLocator]_vars

\* uploads of files whose names do not end in 'ttl', of the pod's own type
CallUploadPlain(p) ==
    \E fileObject \in {f \in FileObjects({docType}) : Slice3(f.name) # S_ttl} :
        uploadDocument(p, fileObject)

\* concurrent uploads: callers start uploadDocument while others run, and
\* the remote calls of the running invocations interleave
NextConcurrentUploads ==
    \E p \in Procs : CallUploadPlain(p) \/ StepUpload(p)

SpecConcurrentUploads == Init /\ [][NextConcurrentUploads]_vars

\* the two phases of deletion on containers filled by uploads
NextDelete ==
    \/ AllIdle /\ (CallUploadPlain(1) \/ CallDelete(1))
    \/ \E p \in Procs : StepUpload(p) \/ StepDelete(p)
    \/ \E url \in pending : StoreDeleteFile(url)

SpecDelete == Init /\ [][NextDelete]_vars

\* grants on the pod's container to the pods of others
CallGiveOthers(p) ==
    \E otherPodUrl \in PodHosts \ {OwnerHost} :
        setDocAclPermission(p, docType, "Give", otherPodUrl)

\* concurrent grants: uploads run one at a time and set the container up;
\* callers start setDocAclPermission while other invocations run, and the
\* remote calls interleave
NextConcurrentGrants ==
    \/ AllIdle /\ CallUploadScan(1)
    \/ \E p \in Procs : CallGiveOthers(p) \/ StepUpload(p) \/ StepPermission(p)

SpecConcurrentGrants == Init /\ [][NextConcurrentGrants]_vars

\* setDocAclPermission on the pod's container for one other pod
CallPermissionOne(p) ==
    \E accessType \in {"Give", "Revoke"} :
        setDocAclPermission(p, docType, accessType, <<"b", ".", "x">>)

\* uploads, permission management and the removal of the container's
\* resources, one invocation after another
NextAclLifecycle ==
    \/ AllIdle /\ (\/ CallUploadScan(1) \/ CallPermissionOne(1)
                    \/ deleteDocumentFile(1, docType))
    \/ \E p \in Procs : StepUpload(p) \/ StepPermission(p) \/ DeleteReadAndIssue(p)
    \/ \E url \in pending : StoreDeleteFile(url)

SpecAclLifecycle == Init /\ [][NextAclLifecycle]_vars

(***************************************************************************)
(* Properties.                                                             *)
(***************************************************************************)
MetadataThings == UNION {d.things : d \in Datasets}

\* the invocations so far were uploads that all returned without error, with
\* fetches at most between them, and none is running
AfterUploadsOnly == onlyUploads /\ AllIdle /\ completed >= 1

\* C1: after n uploads run one after another from an absent container, each
\* returned without error, the container holds exactly one metadata dataset
\* and that dataset holds exactly the n Things of the n uploads.
C1_OneDatasetWithAllThings ==
    AfterUploadsOnly =>
        /\ Cardinality(Datasets) = 1
        /\ {t.subject : t \in MetadataThings} = {generateName(i) : i \in 1..completed}
        /\ Cardinality(MetadataThings) = completed

OwnerEntries == {e \in acl : e.agent = webId}

\* C2: in a sequence of uploads that returned without error the owner ACL
\* bootstrap ran exactly once, never in the merge branch, and the ACL holds
\* exactly one entry for the owner, with full resource and default access.
C2_AclBootstrappedOnce ==
    /\ \A p \in Procs :
          proc[p].pc \in {"getSolidDataset_199", "saveAclFor_210"}
              => proc[p].branch = "create"
    /\ AfterUploadsOnly =>
          /\ aclBoots = 1
          /\ aclExists
          /\ OwnerEntries = {[agent |-> webId, resource |-> FullAccess,
                              default |-> FullAccess]}

\* a successful fetch of the container's type that follows the only upload
RoundTrip(p) ==
    /\ Returned(p, "fetchDocuments") /\ proc[p].ok
    /\ proc[p].fileType = docType /\ proc[p].fetchType = "self-fetch"
    /\ onlyUploads /\ completed = 1
    /\ proc[p].fileObject # NoFile

\* C3: after one successful upload into an absent container and a successful
\* fetch, the metadata dataset holds exactly one Thing, with the uploaded
\* file's name, type, date and description.
C3_RoundTrip ==
    \A p \in Procs : RoundTrip(p) =>
        /\ Cardinality(Datasets) = 1
        /\ Cardinality(MetadataThings) = 1
        /\ \A t \in MetadataThings :
              /\ t.name = proc[p].fileObject.name
              /\ t.identifier = proc[p].fileObject.type
              /\ t.endDate = proc[p].fileObject.date
              /\ t.description = proc[p].fileObject.description

\* C4: when an upload has returned without error there is exactly one
\* metadata dataset, every Thing in it has its file in the container and
\* every uploaded file in the container has its Thing.
C4_ThingsMatchFiles ==
    \A p \in Procs : Returned(p, "uploadDocument") /\ proc[p].ok =>
        /\ Cardinality(Datasets) = 1
        /\ {t.subject : t \in MetadataThings} = {generateName(f.id) : f \in Files}

\* a call of setDocAclPermission that has returned, and its grantee
PermissionSet(p) == Returned(p, "setDocAclPermission") /\ proc[p].ok
Grantee(p) == GranteeWebId(proc[p].otherPodUrl)

\* C5: when setDocAclPermission "Give" has returned the grantee has read as
\* resource and as default access on the container; when a later "Revoke"
\* has returned both are false, whatever the grantee had before.
C5_GiveThenRevoke ==
    \A p \in Procs : PermissionSet(p) =>
        /\ EntryOf(acl, Grantee(p)).resource.read = (proc[p].accessType = "Give")
        /\ EntryOf(acl, Grantee(p)).default.read = (proc[p].accessType = "Give")

\* a Revoke has returned for a grantee, not the owner, who had read access
\* from an earlier Give
C5_Witness ==
    \E p \in Procs :
        /\ PermissionSet(p) /\ proc[p].accessType = "Revoke"
        /\ Grantee(p) # webId
        /\ EntryOf(proc[p].before, Grantee(p)).resource.read
        /\ EntryOf(proc[p].before, Grantee(p)).default.read
        /\ ~EntryOf(acl, Grantee(p)).resource.read

Agents(aclSet) == {e.agent : e \in aclSet}

\* C6: a call of setDocAclPermission leaves the entry of every identity
\* other than the grantee as it was before the call, and the owner's entry
\* in particular.
C6_OnlyGranteeTouched ==
    \A p \in Procs : Returned(p, "setDocAclPermission") =>
        /\ \A agent \in (Agents(acl) \cup Agents(proc[p].before)) \ {Grantee(p)} :
              EntryOf(acl, agent) = EntryOf(proc[p].before, agent)
        /\ EntryOf(acl, webId) = EntryOf(proc[p].before, webId)

NotFoundOrUnauthorized == "No data found or unauthorized"

\* what fetchDocuments gives its caller
FetchOutcome(p) ==
    IF proc[p].cause = ""
    THEN /\ proc[p].ok
         /\ proc[p].value = fetchUrl(webId, proc[p].fileType, proc[p].fetchType,
                                     proc[p].otherPodUrl)
    ELSE /\ ~proc[p].ok
         /\ proc[p].error = NotFoundOrUnauthorized

\* a step of a fetchDocuments invocation: its call or its read
FetchStep(p) ==
    \/ ~Running(p) /\ At(p, "fetchDocuments", "getSolidDataset_320")'
    \/ At(p, "fetchDocuments", "getSolidDataset_320") /\ Returned(p, "fetchDocuments")'

\* C7: fetchDocuments returns the located url when the read succeeds, fails
\* with the one error 'No data found or unauthorized' whatever made the read
\* fail, and never changes the store.
C7_FetchUniformAndReadOnly ==
    /\ [](\A p \in Procs : Returned(p, "fetchDocuments") => FetchOutcome(p))
    /\ [][\A p \in Procs : FetchStep(p) => UNCHANGED storeVars]_vars

\* fetches have failed for the caller's own present container because of the
\* transport
C7_Witness ==
    \E p \in Procs :
        /\ Returned(p, "fetchDocuments") /\ ~proc[p].ok
        /\ proc[p].cause = "network"
        /\ proc[p].fileType = docType /\ proc[p].fetchType = "self-fetch"
        /\ container

\* C8: deleteDocumentContainer called with what deleteDocumentFile returned,
\* once that has returned, leaves the container absent, however many files
\* the container held and in whatever order the store completes the deletes
\* (transport failures of the container delete apart).
C8_TwoPhaseDeleteLeavesAbsent ==
    \A p \in Procs :
        (/\ Returned(p, "deleteDocumentContainer")
         /\ proc[p].from = "deleteDocumentFile"
         /\ proc[p].cause \notin Failures)
            => proc[p].ok /\ ~container

EndsInSlash(url) == url[Len(url)] = "/"

\* C9: deleteDocumentFile issues exactly one delete request for every listed
\* item whose url does not end in '/', and none for the others.
C9_OneDeletePerFile ==
    \A p \in Procs : Returned(p, "deleteDocumentFile") /\ proc[p].ok =>
        proc[p].issued = [url \in {i \in proc[p].items : ~EndsInSlash(i)} |-> 1]

\* C10: the value deleteDocumentFile returns is the container url the
\* Resource Locator gives for its type in self-fetch mode.
C10_ReturnsContainerUrl ==
    \A p \in Procs : Returned(p, "deleteDocumentFile") /\ proc[p].ok =>
        proc[p].value = fetchUrl(webId, proc[p].fileType, "self-fetch", Undefined)

\* the document types as the forms spell them
TypeChars(fileType) ==
    CASE fileType = "Bank Statement" ->
            <<"B", "a", "n", "k", " ", "S", "t", "a", "t", "e", "m", "e", "n", "t">>
      [] fileType = "Passport" -> <<"P", "a", "s", "s", "p", "o", "r", "t">>
      [] fileType = "Drivers License" ->
            <<"D", "r", "i", "v", "e", "r", "s", " ", "L", "i", "c", "e", "n", "s", "e">>

\* URL encoding of a name of letters and spaces
RECURSIVE UrlEncode(_)
UrlEncode(s) ==
    IF s = <<>> THEN <<>>
    ELSE (IF Head(s) = " " THEN <<"%", "2", "0">> ELSE <<Head(s)>>) \o UrlEncode(Tail(s))

\* root is id cut at the first occurrence of 'profile'
CutAtFirstProfile(root, id) ==
    /\ Len(root) <= Len(id) /\ root = SubSeq(id, 1, Len(root))
    /\ \A i \in 1..Len(root) : ~OccursAt(id, S_profile, i)
    /\ root # id => OccursAt(id, S_profile, Len(root) + 1)

IsPodRoot(root, fetchType, otherPodUrl) ==
    IF fetchType = "self-fetch" THEN CutAtFirstProfile(root, webId)
    ELSE root = S_https \o otherPodUrl \o S_slash

Located(p) == proc[p].op = "fetchUrl" /\ proc[p].pc = "returned"

\* C11: for a supported type fetchUrl returns the pod root followed by the
\* URL-encoded type and '/', the pod root being the web id cut at the first
\* 'profile' in self-fetch mode and https://<otherPodUrl>/ in any other; for
\* any other type it returns null.
C11_LocatorContract ==
    \A p \in Procs : Located(p) =>
        IF proc[p].fileType \in SupportedTypes
        THEN \E n \in 0..Len(proc[p].value) :
                /\ IsPodRoot(SubSeq(proc[p].value, 1, n), proc[p].fetchType,
                             proc[p].otherPodUrl)
                /\ SubSeq(proc[p].value, n + 1, Len(proc[p].value))
                      = UrlEncode(TypeChars(proc[p].fileType)) \o S_slash
        ELSE proc[p].value = Null

\* the locator was applied in self-fetch mode, for a supported type, to a web
\* id in which 'profile' occurs twice
C11_Witness ==
    \E p \in Procs :
        /\ Located(p) /\ proc[p].fetchType = "self-fetch"
        /\ proc[p].fileType = "Bank Statement"
        /\ Cardinality({i \in 1..Len(webId) : OccursAt(webId, S_profile, i)}) = 2
        /\ proc[p].value = S_https \o Seg_Bank

\* the Thing uploadDocument builds for a file is in a resource of the container
ThingWritten(fileObject) ==
    \E r \in resources : \E t \in r.things :
        /\ t.name = fileObject.name /\ t.identifier = fileObject.type
        /\ t.endDate = fileObject.date /\ t.description = fileObject.description

\* an upload has returned without error although its file was not placed
ReturnedUnplaced(p) ==
    Returned(p, "uploadDocument") /\ proc[p].ok /\ ~proc[p].placed

\* C12: the placement step never fails the upload: whatever the store
\* answers the invocation goes on to read the container; and an upload whose
\* placement failed and whose other calls succeeded has returned without
\* error with the file's Thing written (created or merged).
C12_PlacementFailureSwallowed ==
    /\ [](\A p \in Procs : ReturnedUnplaced(p) =>
              /\ proc[p].branch \in {"create", "merge"}
              /\ ThingWritten(proc[p].fileObject))
    /\ [][\A p \in Procs :
              At(p, "uploadDocument", "saveFileInContainer") /\ proc'[p] # proc[p]
                  => At(p, "uploadDocument", "getSolidDataset_267")']_vars

\* an upload whose placement failed has returned without error: the Thing is
\* in the container and the file is not
C12_Witness ==
    \E p \in Procs :
        /\ ReturnedUnplaced(p) /\ ThingWritten(proc[p].fileObject)
        /\ \A r \in Files : r.name # proc[p].fileObject.name
        /\ proc[p].branch = "create"

\* the operations whose failures surface unmodified
Surfacing ==
    {"uploadDocument", "setDocAclPermission", "deleteDocumentFile",
     "deleteDocumentContainer"}

\* the store fails a pending deleteFile request for url: the request is
\* gone and the resource is still there
DeleteFileFails(url) ==
    /\ url \in pending /\ url \notin pending'
    /\ \E r \in resources : UrlOf(r) = url
    /\ resources' = resources

\* C13: a failed remote call of uploadDocument (placement apart),
\* setDocAclPermission, deleteDocumentFile or deleteDocumentContainer fails
\* the operation with the store's error, and a failed deleteFile request of
\* deleteDocumentFile fails that deleteDocumentFile.
C13_FailuresSurface ==
    /\ [](\A p \in Procs :
              proc[p].pc = "returned" /\ proc[p].op \in Surfacing /\ proc[p].cause # ""
                  => ~proc[p].ok /\ proc[p].error = proc[p].cause)
    /\ [][\A p \in Procs : \A url \in pending :
              (/\ Returned(p, "deleteDocumentFile")
               /\ url \in DOMAIN proc[p].issued
               /\ DeleteFileFails(url))
                  => ~proc'[p].ok /\ proc'[p].error # ""]_vars

\* C14: under every interleaving of concurrent uploads the container holds
\* at most one metadata dataset, and when all uploads have returned without
\* error the Thing of each of them is in the metadata.
C14_ConcurrentUploadsKeepOneDataset ==
    /\ Cardinality(Datasets) <= 1
    /\ AfterUploadsOnly =>
          {generateName(i) : i \in 1..completed} \subseteq {t.subject : t \in MetadataThings}

\* deleteDocumentFile returns in this step
DeleteFileReturns(p) ==
    At(p, "deleteDocumentFile", "getSolidDataset_339")
        /\ Returned(p, "deleteDocumentFile")' /\ proc'[p].ok

\* the store answers the deleteContainer request of p in this step
ContainerDeleteAnswered(p) ==
    At(p, "deleteDocumentContainer", "deleteContainer")
        /\ Returned(p, "deleteDocumentContainer")'

\* C15: when deleteDocumentFile returns every delete request it made is in
\* flight and none has been waited for, so the resources are all still in
\* the container; and a deleteContainer request answered while the
\* container holds a resource fails and leaves the container present.
C15_DeletesNotAwaited ==
    [][\A p \in Procs :
          /\ DeleteFileReturns(p) =>
                /\ DOMAIN proc'[p].issued \subseteq pending'
                /\ resources' = resources
          /\ ContainerDeleteAnswered(p) /\ container /\ resources # {} =>
                ~proc'[p].ok /\ container']_vars

\* deleteDocumentFile has returned the container's url, a file it asked to
\* delete is still in the container, and the deleteDocumentContainer called
\* with that url has failed under the non-empty-container rule
C15_Witness ==
    \E p \in Procs :
        /\ Returned(p, "deleteDocumentContainer") /\ ~proc[p].ok
        /\ proc[p].from = "deleteDocumentFile" /\ proc[p].url = ContainerUrl
        /\ proc[p].cause = "conflict"
        /\ container
        /\ \E r \in Files : UrlOf(r) \in pending

UploadInProgress == \E p \in Procs : Running(p) /\ proc[p].op = "uploadDocument"

\* C16: whenever no upload is in progress and the container holds a
\* metadata dataset, the container has its own ACL and that ACL gives the
\* owner full resource and default access, also after uploads that failed
\* part way.
C16_DatasetImpliesOwnerAcl ==
    ~UploadInProgress /\ Datasets # {} =>
        /\ aclExists
        /\ EntryOf(acl, webId) = [agent |-> webId, resource |-> FullAccess,
                                  default |-> FullAccess]

\* the Things of all resources of the container
AllThings == UNION {r.things : r \in resources}

\* the subject names the url: the url itself, or the url as local name
NamesUrl(subject, url) == subject = url \/ subject = <<"#">> \o url

\* C17: the Thing an upload writes has as subject the url the store assigned
\* to the file the upload placed.
C17_SubjectIsAssignedUrl ==
    \A p \in Procs :
        Returned(p, "uploadDocument") /\ proc[p].ok /\ proc[p].placed =>
            \E t \in AllThings : \E f \in Files :
                /\ t.name = proc[p].fileObject.name
                /\ t.description = proc[p].fileObject.description
                /\ NamesUrl(t.subject, UrlOf(f))

\* C18: the item an upload detects as the existing metadata dataset is a
\* dataset an earlier upload wrote, never an uploaded file; and the first
\* upload into an absent container, also of a file whose name ends in
\* 'ttl', takes the create branch, creates the dataset and bootstraps the
\* owner's ACL.
C18_DetectedItemIsDataset ==
    /\ \A p \in Procs :
          Running(p) /\ proc[p].branch = "merge" =>
              \E r \in Datasets : UrlOf(r) = proc[p].ttlFile
    /\ \A p \in Procs :
          (/\ Returned(p, "uploadDocument") /\ proc[p].ok
           /\ onlyUploads /\ completed = 1 /\ uploads = 1) =>
              /\ proc[p].branch = "create"
              /\ Datasets # {}
              /\ aclExists

\* the change a returned setDocAclPermission asked for is in the ACL
ChangePresent(p) ==
    /\ EntryOf(acl, Grantee(p)).resource.read = (proc[p].accessType = "Give")
    /\ EntryOf(acl, Grantee(p)).default.read = (proc[p].accessType = "Give")

\* C19: when two calls of setDocAclPermission for different grantees have
\* returned, however their reads and saves interleaved, the ACL holds the
\* change of each (one upload made the container and no other followed).
C19_ConcurrentGrantsBothPresent ==
    \A p, q \in Procs :
        (/\ p # q /\ PermissionSet(p) /\ PermissionSet(q)
         /\ Grantee(p) # Grantee(q)
         /\ webId \notin {Grantee(p), Grantee(q)}
         /\ uploads = 1) =>
            ChangePresent(p) /\ ChangePresent(q)

\* a step of an uploadDocument invocation
UploadStep(p) ==
    proc[p].op = "uploadDocument" /\ Running(p) /\ proc'[p] # proc[p]

\* C20: no step of uploadDocument changes the access of an identity other
\* than the owner: a grantee's entry in the container's ACL stays as it is
\* across uploads, sequential or concurrent.
C20_UploadKeepsGrants ==
    [][\A p \in Procs : UploadStep(p) =>
          \A agent \in Agents(acl) \ {webId} :
              EntryOf(acl', agent) = EntryOf(acl, agent)]_vars

====
